---- MODULE Spec2Model ----
(***************************************************************************)
(* Model of the two notebooks of the repository.                           *)
(*                                                                         *)
(*  - PSF_viewer.ipynb: the napari PSF viewer.  Two kinds of worker        *)
(*    threads (append_img, yield_img) around img_queue, the shared flag    *)
(*    acq_running, the Start / Stop buttons and display_napari.            *)
(*  - the OPM stage-scan notebook: the scan geometry and the nested-loop   *)
(*    builder of the acquisition event list.                               *)
(*                                                                         *)
(* Every access of a worker thread to a shared global is one step, so the  *)
(* interleavings the interpreter can produce are the behaviours of Spec.   *)
(***************************************************************************)
EXTENDS Integers, Sequences, FiniteSets, TLC

\* ------------------------------------------------------------------ bounds
\* number of slices of a stack, z_range[2] (200 in the notebook)
NSlices == 2
\* number of presses of the Start / Stop buttons in one behaviour
MaxPresses == 3
\* number of frames all append_img workers together enqueue in one behaviour
MaxPuts == 2
\* clip = [ClipRows, ClipCols], the size of a frame ([128, 128] in the notebook)
ClipRows == 1
ClipCols == 2

\* ------------------------------------------------------- program constants
\* clim[1], upper contrast limit, scales the simulated brightness
clim1 == 300
\* len(layer_names), the colour channels that have a layer name and a colormap;
\* channels[0] is configured between 1 and this number
MaxChannels == 2

VARIABLES
    acq_running,     \* flag to break while loops
    z_range,         \* [start, end, number of slices, active slice]
    channels,        \* [number of colour channels, active channel]
    img_queue,       \* queue.Queue() of [channel, z position, raveled image]
    data,            \* xyz data stack: slice index -> image
    append_workers,  \* the append_img workers created so far, in creation order
    yield_workers,   \* the yield_img workers created so far, in creation order
    shown,           \* history: the items display_napari received, in order
    task_done,       \* the number of calls of img_queue.task_done() so far
    puts,            \* history: number of img_queue.put calls so far
    presses,         \* history: number of button presses so far
    lastCall,        \* history: the button handler called last, and the flag it found
    \* --- the stage-scan notebook
    params,          \* the acquisition parameters set by the user
    loop,            \* position in the nested loops that build the event list
    events,          \* the acquisition event list
    \* --- the stage-scan notebook: the cells and hooks that command the devices
    unit,            \* the code unit that is executing (a cell or a hook)
    ip,              \* the statement of that unit that executes next
    line,            \* the line of a wait-for-ready loop that executes next
    ready,           \* the local variable ready of the wait-for-ready loop
    props,           \* device properties: <<device, property>> -> value
    config,          \* the active config of the group 'Coherent-State'
    engine,          \* the acquisition engine: its phase, the sequences to run, the
                     \* event given to the running hook and the event it returned
    kernel,          \* the names bound in the kernel when the run cell starts
    written,         \* history: the serial commands other than STATUS written
    polls,           \* history: STATUS commands of the running poll, and answers
    issued,          \* history: the device commands the run cell has issued
    \* --- the viewer notebook: acquire_data, the micro-manager acquisition
    acq_line,        \* the line of acquire_data that executes next
    acq_events,      \* the local list events of acquire_data
    acq_acquired,    \* history: the event lists passed to acq.acquire, in order
    acq_incoming,    \* the (image, metadata) the acquisition hands to grab_image
    acq_returned     \* history: what the last call of grab_image returned

viewer_vars == <<acq_running, z_range, channels, img_queue, data, append_workers,
                 yield_workers, shown, task_done, puts, presses, lastCall>>
builder_vars == <<params, loop, events>>
device_vars == <<unit, ip, line, ready, props, config, engine, kernel, written,
                 polls, issued>>
acquire_vars == <<acq_line, acq_events, acq_acquired, acq_incoming,
                  acq_returned>>
vars == <<viewer_vars, builder_vars, device_vars, acquire_vars>>

\* acquire_data is not running
AcquireOff ==
    /\ acq_line = "off" /\ acq_events = <<>> /\ acq_acquired = <<>>
    /\ acq_incoming = <<>> /\ acq_returned = <<>>

\* ------------------------------------------------------------ numpy helpers
\* np.ones(size) * b
ones_times(size, b) == [r \in 1..size[1] |-> [c \in 1..size[2] |-> b]]

\* np.ravel(image): row-major flattening of a 2-D array
ravel(image) ==
    LET R == Len(image)
        C == IF R = 0 THEN 0 ELSE Len(image[1])
    IN  [k \in 1..(R * C) |-> image[((k - 1) \div C) + 1][((k - 1) % C) + 1]]

\* np.reshape(flat, (rows, cols)): row-major
reshape(flat, rows, cols) ==
    [r \in 1..rows |-> [c \in 1..cols |-> flat[(r - 1) * cols + c]]]

clip == <<ClipRows, ClipCols>>

\* ------------------------------------------------------------- place_data
\* img_queue.put([channels[1], z_range[3], np.ravel(image)])
place_data_put(image) ==
    /\ img_queue' = Append(img_queue,
                           [c |-> channels[1], z |-> z_range[3],
                            image |-> ravel(image), id |-> puts + 1])
    /\ puts' = puts + 1

\* mutant of next_z: the position is not taken modulo the number of slices
next_z_no_modulo(t) == t + 1

\* the value stored by  z_range[3] = (z_range[3]+1) % z_range[2]
\* from the value t read for z_range[3]
next_z(t) == (t + 1) % z_range[2]

\* the value stored by  channels[1] = (channels[1]+1) % channels[0]
\* from the value t read for channels[1]
next_channel(t) == (t + 1) % channels[0]

\* brightness of slice zz of stack ii in simulate_data,
\*     (ii+1) * (zz+1) / (z_range[2]+1) * clim[1]
\* Pixel values are kept in units of 1 / (z_range[2]+1), so the value is the
\* numerator of this fraction.
brightness(ii, zz) == (ii + 1) * (zz + 1) * clim1

\* simulate_image(b, size): the image handed to place_data
simulate_image(b, size) == ones_times(size, b)

\* np.random.rand(...) * clim[1]: the random stack starts with levels below
\* clim[1], that is below clim1 * (z_range[2]+1) in pixel units.  A stack is
\* sampled by the level r of its first slice, slice z starting at r + z; the
\* second sample starts at the brightness of the first simulated frame.
rand == {0, clim1}

\* ------------------------------------------------------------- append_img
\* The three branches of append_img are the same loop,
\*     while acq_running:  <one stack>;  time.sleep(sleep_time)
\* and one stack is z_range[2] calls of place_data: from simulate_data, or from
\* grab_image for each of the z_range[2] events of an acquisition.  The frames
\* are those of simulate_data.
NewAppend == [pc |-> "while", ii |-> 0, zz |-> 0, t |-> 0]

\* while acq_running:  (the loop test of append_img)
append_while(w) ==
    /\ append_workers[w].pc = "while"
    /\ append_workers' = [append_workers EXCEPT
                              ![w].pc = IF acq_running THEN "put" ELSE "done",
                              ![w].zz = 0]
    /\ UNCHANGED <<acq_running, z_range, channels, img_queue, data, yield_workers,
                   shown, task_done, puts, presses, lastCall>>
    /\ UNCHANGED <<builder_vars, device_vars, acquire_vars>>

\* simulate_data: simulate_image(brightness, clip) -> place_data: the put
append_put(w) ==
    /\ append_workers[w].pc = "put"
    /\ puts < MaxPuts
    /\ place_data_put(simulate_image(brightness(append_workers[w].ii,
                                                append_workers[w].zz), clip))
    /\ append_workers' = [append_workers EXCEPT ![w].pc = "z_read"]
    /\ UNCHANGED <<acq_running, z_range, channels, data, yield_workers, shown, task_done,
                   presses, lastCall>>
    /\ UNCHANGED <<builder_vars, device_vars, acquire_vars>>

\* place_data: the read of z_range[3] in  z_range[3] = (z_range[3]+1) % z_range[2]
append_z_read(w) ==
    /\ append_workers[w].pc = "z_read"
    /\ append_workers' = [append_workers EXCEPT ![w].pc = "z_write",
                                                ![w].t = z_range[3]]
    /\ UNCHANGED <<acq_running, z_range, channels, img_queue, data, yield_workers,
                   shown, task_done, puts, presses, lastCall>>
    /\ UNCHANGED <<builder_vars, device_vars, acquire_vars>>

\* place_data: the store of z_range[3]
append_z_write(w) ==
    /\ append_workers[w].pc = "z_write"
    /\ z_range' = [z_range EXCEPT ![3] = next_z(append_workers[w].t)]
    /\ append_workers' = [append_workers EXCEPT ![w].pc = "wrap", ![w].t = 0]
    /\ UNCHANGED <<acq_running, channels, img_queue, data, yield_workers, shown, task_done,
                   puts, presses, lastCall>>
    /\ UNCHANGED <<builder_vars, device_vars, acquire_vars>>

\* mutant of after_place_data: acq_running is tested after every frame
after_place_data_every_frame(r) ==
    [r EXCEPT !.pc = "while", !.zz = 0, !.ii = r.ii + 1, !.t = 0]

\* the loop control of simulate_data and append_img after place_data returned:
\* next slice of the stack, or ii = ii + 1 and back to the loop test
after_place_data(r) ==
    IF r.zz + 1 < z_range[2]
    THEN [r EXCEPT !.pc = "put", !.zz = r.zz + 1, !.t = 0]
    ELSE [r EXCEPT !.pc = "while", !.zz = 0, !.ii = r.ii + 1, !.t = 0]

\* place_data:  if z_range[3] == 0:
append_wrap(w) ==
    /\ append_workers[w].pc = "wrap"
    /\ IF z_range[3] = 0
       THEN append_workers' = [append_workers EXCEPT ![w].pc = "ch_read"]
       ELSE append_workers' = [append_workers EXCEPT
                                   ![w] = after_place_data(append_workers[w])]
    /\ UNCHANGED <<acq_running, z_range, channels, img_queue, data, yield_workers,
                   shown, task_done, puts, presses, lastCall>>
    /\ UNCHANGED <<builder_vars, device_vars, acquire_vars>>

\* place_data: the read of channels[1] in  channels[1] = (channels[1]+1) % channels[0]
append_ch_read(w) ==
    /\ append_workers[w].pc = "ch_read"
    /\ append_workers' = [append_workers EXCEPT ![w].pc = "ch_write",
                                                ![w].t = channels[1]]
    /\ UNCHANGED <<acq_running, z_range, channels, img_queue, data, yield_workers,
                   shown, task_done, puts, presses, lastCall>>
    /\ UNCHANGED <<builder_vars, device_vars, acquire_vars>>

\* place_data: the store of channels[1]
append_ch_write(w) ==
    /\ append_workers[w].pc = "ch_write"
    /\ channels' = [channels EXCEPT ![1] = next_channel(append_workers[w].t)]
    /\ append_workers' = [append_workers EXCEPT
                              ![w] = after_place_data(append_workers[w])]
    /\ UNCHANGED <<acq_running, z_range, img_queue, data, yield_workers, shown, task_done,
                   puts, presses, lastCall>>
    /\ UNCHANGED <<builder_vars, device_vars, acquire_vars>>

\* one step of append_img worker w
append_img(w) ==
    \/ append_while(w)
    \/ append_put(w)
    \/ append_z_read(w)
    \/ append_z_write(w)
    \/ append_wrap(w)
    \/ append_ch_read(w)
    \/ append_ch_write(w)

\* --------------------------------------------------------- display_napari
\* Python's None, where a queue item is expected
None == [c |-> 0, z |-> 0, image |-> <<>>, id |-> 0]

\* mutant of display_napari: the frame is written one slice too far
display_napari_next_slice(pos_img) ==
    /\ data' = [data EXCEPT ![(pos_img.z + 1) % z_range[2]] =
                                reshape(pos_img.image, clip[1], clip[2])]
    /\ shown' = Append(shown, pos_img)
    /\ task_done' = task_done + 1

\* mutant of display_napari: task_done is called a second time
display_napari_task_done_twice(pos_img) ==
    /\ data' = [data EXCEPT ![pos_img.z] = reshape(pos_img.image, clip[1], clip[2])]
    /\ shown' = Append(shown, pos_img)
    /\ task_done' = task_done + 2

\* if pos_img is None: return
\* data[z_pos] = np.squeeze(np.reshape(pos_img[2:], (clip[0], clip[1])))
\* img_queue.task_done()
display_napari(pos_img) ==
    IF pos_img = None
    THEN UNCHANGED <<data, shown, task_done>>
    ELSE /\ data' = [data EXCEPT ![pos_img.z] = reshape(pos_img.image, clip[1], clip[2])]
         /\ shown' = Append(shown, pos_img)
         /\ task_done' = task_done + 1

\* -------------------------------------------------------------- yield_img
NoItem == None
NewYield == [pc |-> "while", item |-> NoItem]

\* while acq_running:  (the loop test of yield_img)
yield_while(w) ==
    /\ yield_workers[w].pc = "while"
    /\ yield_workers' = [yield_workers EXCEPT
                             ![w].pc = IF acq_running THEN "qsize" ELSE "drain"]
    /\ UNCHANGED <<acq_running, z_range, channels, img_queue, data, append_workers,
                   shown, task_done, puts, presses, lastCall>>
    /\ UNCHANGED <<builder_vars, device_vars, acquire_vars>>

\* while img_queue.qsize() > 1:
yield_qsize(w) ==
    /\ yield_workers[w].pc = "qsize"
    /\ yield_workers' = [yield_workers EXCEPT
                             ![w].pc = IF Len(img_queue) > 1 THEN "get" ELSE "while"]
    /\ UNCHANGED <<acq_running, z_range, channels, img_queue, data, append_workers,
                   shown, task_done, puts, presses, lastCall>>
    /\ UNCHANGED <<builder_vars, device_vars, acquire_vars>>

\* while img_queue.qsize() > 0:   (after the end of the acquisition)
yield_drain(w) ==
    /\ yield_workers[w].pc = "drain"
    /\ yield_workers' = [yield_workers EXCEPT
                             ![w].pc = IF Len(img_queue) > 0 THEN "get_last" ELSE "done"]
    /\ UNCHANGED <<acq_running, z_range, channels, img_queue, data, append_workers,
                   shown, task_done, puts, presses, lastCall>>
    /\ UNCHANGED <<builder_vars, device_vars, acquire_vars>>

\* img_queue.get(block = False): raises queue.Empty on an empty queue, which
\* ends the generator
yield_get(w) ==
    /\ yield_workers[w].pc \in {"get", "get_last"}
    /\ IF img_queue = <<>>
       THEN /\ yield_workers' = [yield_workers EXCEPT ![w].pc = "raised"]
            /\ UNCHANGED img_queue
       ELSE /\ yield_workers' = [yield_workers EXCEPT
                   ![w].pc = IF yield_workers[w].pc = "get" THEN "yield" ELSE "yield_last",
                   ![w].item = Head(img_queue)]
            /\ img_queue' = Tail(img_queue)
    /\ UNCHANGED <<acq_running, z_range, channels, data, append_workers, shown, task_done,
                   puts, presses, lastCall>>
    /\ UNCHANGED <<builder_vars, device_vars, acquire_vars>>

\* yield <item>: the yielded signal calls display_napari with the item
yield_yield(w) ==
    /\ yield_workers[w].pc \in {"yield", "yield_last"}
    /\ display_napari(yield_workers[w].item)
    /\ yield_workers' = [yield_workers EXCEPT
                   ![w].pc = IF yield_workers[w].pc = "yield" THEN "qsize" ELSE "drain",
                   ![w].item = NoItem]
    /\ UNCHANGED <<acq_running, z_range, channels, img_queue, append_workers,
                   puts, presses, lastCall>>
    /\ UNCHANGED <<builder_vars, device_vars, acquire_vars>>

\* one step of yield_img worker w
yield_img(w) ==
    \/ yield_while(w)
    \/ yield_qsize(w)
    \/ yield_drain(w)
    \/ yield_get(w)
    \/ yield_yield(w)

\* ------------------------------------------------------ start_acq, stop_acq
\* mutant of start_acq: z_range[3] is not reset
start_acq_no_reset ==
    /\ presses < MaxPresses
    /\ presses' = presses + 1
    /\ lastCall' = [fn |-> "start_acq", running |-> acq_running]
    /\ IF ~acq_running
       THEN /\ acq_running' = TRUE
            /\ append_workers' = Append(append_workers, NewAppend)
            /\ yield_workers' = Append(yield_workers, NewYield)
            /\ UNCHANGED z_range
       ELSE UNCHANGED <<z_range, acq_running, append_workers, yield_workers>>
    /\ UNCHANGED <<channels, img_queue, data, shown, task_done, puts>>
    /\ UNCHANGED <<builder_vars, device_vars, acquire_vars>>

\* mutant of start_acq: a successful start also resets the active channel and
\* empties the queue
start_acq_resets_all ==
    /\ presses < MaxPresses
    /\ presses' = presses + 1
    /\ lastCall' = [fn |-> "start_acq", running |-> acq_running]
    /\ IF ~acq_running
       THEN /\ z_range' = [z_range EXCEPT ![3] = 0]
            /\ channels' = [channels EXCEPT ![1] = 0]
            /\ img_queue' = <<>>
            /\ acq_running' = TRUE
            /\ append_workers' = Append(append_workers, NewAppend)
            /\ yield_workers' = Append(yield_workers, NewYield)
       ELSE UNCHANGED <<z_range, channels, img_queue, acq_running, append_workers,
                        yield_workers>>
    /\ UNCHANGED <<data, shown, task_done, puts>>
    /\ UNCHANGED <<builder_vars, device_vars, acquire_vars>>

\* mutant of start_acq: acq_running is not tested
start_acq_no_test ==
    /\ presses < MaxPresses
    /\ presses' = presses + 1
    /\ lastCall' = [fn |-> "start_acq", running |-> acq_running]
    /\ z_range' = [z_range EXCEPT ![3] = 0]
    /\ acq_running' = TRUE
    /\ append_workers' = Append(append_workers, NewAppend)
    /\ yield_workers' = Append(yield_workers, NewYield)
    /\ UNCHANGED <<channels, img_queue, data, shown, task_done, puts>>
    /\ UNCHANGED <<builder_vars, device_vars, acquire_vars>>

start_acq ==
    /\ presses < MaxPresses
    /\ presses' = presses + 1
    /\ lastCall' = [fn |-> "start_acq", running |-> acq_running]
    /\ IF ~acq_running
       THEN /\ z_range' = [z_range EXCEPT ![3] = 0]
            /\ acq_running' = TRUE
            /\ append_workers' = Append(append_workers, NewAppend)
            /\ yield_workers' = Append(yield_workers, NewYield)
       ELSE UNCHANGED <<z_range, acq_running, append_workers, yield_workers>>
    /\ UNCHANGED <<channels, img_queue, data, shown, task_done, puts>>
    /\ UNCHANGED <<builder_vars, device_vars, acquire_vars>>

stop_acq ==
    /\ presses < MaxPresses
    /\ presses' = presses + 1
    /\ lastCall' = [fn |-> "stop_acq", running |-> acq_running]
    /\ acq_running' = FALSE
    /\ UNCHANGED <<z_range, channels, img_queue, data, append_workers,
                   yield_workers, shown, task_done, puts>>
    /\ UNCHANGED <<builder_vars, device_vars, acquire_vars>>

\* ======================================================== stage-scan notebook
\* Lengths are integers in units of 0.01 um, the resolution np.round(..., 2)
\* gives the step sizes.

\* --- bound: the largest axis range the user enters, in steps of that axis
MaxSteps == 2

\* --- program constants
\* scan_axis_step_um = 0.2
scan_axis_step_um == 20
\* ROI = [1024, 0, 256, 1600]: ROI[2] and ROI[3], in pixels
ROI2 == 256
ROI3 == 1600
\* pixel_size_um = .115, in nm
pixel_size_nm == 115
\* tile_axis_overlap = 0.2 and height_axis_overlap = 0.2, in percent
tile_axis_overlap == 20
height_axis_overlap == 20
\* len(channel_states)
NumLasers == 5

\* np.abs
abs(v) == IF v < 0 THEN 0 - v ELSE v

\* mutant of rint: the quotient is cut off
rint_floor(a, b) == a \div b

\* np.rint(a / b) and np.round(a / b): the nearest integer, a tie to the even one
rint(a, b) ==
    LET q == a \div b
        r == a % b
    IN  IF 2 * r < b THEN q
        ELSE IF 2 * r > b THEN q + 1
        ELSE IF q % 2 = 0 THEN q ELSE q + 1

\* tile_axis_step_um = np.round(ROI[3]*pixel_size_um * (1-tile_axis_overlap), 2)
tile_axis_step_um == rint(ROI3 * pixel_size_nm * (100 - tile_axis_overlap), 1000)

\* height_axis_step_um = np.round(ROI[2]*pixel_size_um*np.sin(30 deg)
\*                                * (1-height_axis_overlap), 2)
height_axis_step_um == rint(ROI2 * pixel_size_nm * (100 - height_axis_overlap), 2000)

\* scan_axis_positions = np.rint(scan_axis_range_mm / scan_axis_step_mm).astype(int)
scan_axis_positions ==
    rint(abs(params.scan_axis_end_um - params.scan_axis_start_um), scan_axis_step_um)

\* tile_axis_positions = np.rint(tile_axis_range_mm / tile_axis_step_mm).astype(int)
tile_axis_rint ==
    rint(abs(params.tile_axis_end_um - params.tile_axis_start_um), tile_axis_step_um)

\* tile_axis_positions, made 1 if it rounded to zero
tile_axis_positions ==
    LET n == tile_axis_rint
    IN  IF n = 0 THEN 1 ELSE n

\* height_axis_positions = np.rint(height_axis_range_mm / height_axis_step_mm).astype(int)
height_axis_rint ==
    rint(abs(params.height_axis_end_um - params.height_axis_start_um),
         height_axis_step_um)

\* height_axis_positions, made 1 if it rounded to zero
height_axis_positions ==
    LET n == height_axis_rint
    IN  IF n = 0 THEN 1 ELSE n

\* the 'config' of the channel an event of laser c selects
channel_config(c) ==
    CASE c = 0 -> "405nm"
      [] c = 1 -> "488nm"
      [] c = 2 -> "561nm"
      [] c = 3 -> "637nm"
      [] c = 4 -> "730nm"

\* mutant of evt: the scan index counts down
evt_reversed_x(x, y, z, c) ==
    [axes |-> [x |-> scan_axis_positions - 1 - x, y |-> y, z |-> z],
     x |-> params.scan_axis_start_um,
     y |-> loop.tile_position_um,
     z |-> loop.height_position_um,
     channel |-> [group |-> "Coherent-State", config |-> channel_config(c)]]

\* mutant of evt: the x stage target follows the scan index
evt_moving_x(x, y, z, c) ==
    [axes |-> [x |-> x, y |-> y, z |-> z],
     x |-> params.scan_axis_start_um + (scan_axis_step_um * x),
     y |-> loop.tile_position_um,
     z |-> loop.height_position_um,
     channel |-> [group |-> "Coherent-State", config |-> channel_config(c)]]

\* evt = { 'axes': {'x': x, 'y': y, 'z': z}, 'x': scan_axis_start_um,
\*         'y': tile_position_um, 'z': height_position_um, 'channel': {...} }
evt(x, y, z, c) ==
    [axes |-> [x |-> x, y |-> y, z |-> z],
     x |-> params.scan_axis_start_um,
     y |-> loop.tile_position_um,
     z |-> loop.height_position_um,
     channel |-> [group |-> "Coherent-State", config |-> channel_config(c)]]

\* for y in range(tile_axis_positions):
\*     tile_position_um = tile_axis_start_um+(tile_axis_step_um*y)
for_y ==
    /\ loop.pc = "for_y"
    /\ IF loop.y < tile_axis_positions
       THEN loop' = [loop EXCEPT
                !.pc = "for_z", !.z = 0,
                !.tile_position_um = params.tile_axis_start_um
                                     + (tile_axis_step_um * loop.y)]
       ELSE loop' = [loop EXCEPT !.pc = "done"]
    /\ UNCHANGED <<params, events>>
    /\ UNCHANGED <<viewer_vars, device_vars, acquire_vars>>

\* for z in range(height_axis_positions):
\*     height_position_um = height_axis_start_um+(height_axis_step_um*z)
for_z ==
    /\ loop.pc = "for_z"
    /\ IF loop.z < height_axis_positions
       THEN loop' = [loop EXCEPT
                !.pc = "for_c", !.c = 0,
                !.height_position_um = params.height_axis_start_um
                                       + (height_axis_step_um * loop.z)]
       ELSE loop' = [loop EXCEPT !.pc = "for_y", !.y = loop.y + 1]
    /\ UNCHANGED <<params, events>>
    /\ UNCHANGED <<viewer_vars, device_vars, acquire_vars>>

\* for c in range(len(channel_states)):
for_c ==
    /\ loop.pc = "for_c"
    /\ IF loop.c < Len(params.channel_states)
       THEN loop' = [loop EXCEPT !.pc = "for_x", !.x = 0]
       ELSE loop' = [loop EXCEPT !.pc = "for_z", !.z = loop.z + 1]
    /\ UNCHANGED <<params, events>>
    /\ UNCHANGED <<viewer_vars, device_vars, acquire_vars>>

\* mutant of for_x: an event for every laser, active or not
for_x_all_lasers ==
    /\ loop.pc = "for_x"
    /\ IF loop.x < scan_axis_positions
       THEN /\ loop' = [loop EXCEPT !.x = loop.x + 1]
            /\ events' = Append(events, evt(loop.x, loop.y, loop.z, loop.c))
       ELSE /\ loop' = [loop EXCEPT !.pc = "for_c", !.c = loop.c + 1]
            /\ UNCHANGED events
    /\ UNCHANGED params
    /\ UNCHANGED <<viewer_vars, device_vars, acquire_vars>>

\* for x in range(scan_axis_positions):
\*     if channel_states[c]==1:  evt = ...;  events.append(evt)
for_x ==
    /\ loop.pc = "for_x"
    /\ IF loop.x < scan_axis_positions
       THEN /\ loop' = [loop EXCEPT !.x = loop.x + 1]
            /\ IF params.channel_states[loop.c + 1] = 1
               THEN events' = Append(events, evt(loop.x, loop.y, loop.z, loop.c))
               ELSE UNCHANGED events
       ELSE /\ loop' = [loop EXCEPT !.pc = "for_c", !.c = loop.c + 1]
            /\ UNCHANGED events
    /\ UNCHANGED params
    /\ UNCHANGED <<viewer_vars, device_vars, acquire_vars>>

\* =================================================== stage-scan device control
\* The cells and hooks of the stage-scan notebook that command the devices
\* through core: the Tiger setup cell, post_hardware_hook, post_camera_hook_
\* and the run cell.  Each is a list of statements executed in order; unit and
\* ip name the statement that executes next.

\* --- bounds
\* the STATUS commands of one wait-for-ready loop that are counted
MaxPolls == 2
\* the hardware sequences the engine makes of one event list
MaxSequences == 2

\* core.set_property(dev, prop, val)
set_property(dev, prop, val) ==
    [op |-> "set_property", dev |-> dev, prop |-> prop, val |-> val]

\* core.set_property('TigerCommHub','SerialCommand',command)
SerialCommand(command) == set_property("TigerCommHub", "SerialCommand", command)

\* core.set_property('TigerCommHub','OnlySendSerialCommandOnChange', val)
OnlySendSerialCommandOnChange(val) ==
    set_property("TigerCommHub", "OnlySendSerialCommandOnChange", val)

\* a statement that is not a set_property: the wait-for-ready loop ("poll"),
\* return event, Acquisition(...), acq.acquire(events), the end of the with
\* block, core.set_config, core.wait_for_config
statement(op) == [op |-> op, dev |-> "", prop |-> "", val |-> ""]

\* ready='B'; while(ready!='N'): command = 'STATUS'; set_property; get_property;
\* sleep(.500)
wait_for_ready == statement("poll")

\* the cell "Setup ASI stage control cards and programmable logic card"
TigerSetupCell ==
    << set_property("PLogic:E:36", "PointerPosition", "35"),
       set_property("PLogic:E:36", "EditCellConfig", "46"),
       OnlySendSerialCommandOnChange("No"),
       SerialCommand("SPEED Y=.25"),
       wait_for_ready,
       SerialCommand("SPEED X=.25"),
       wait_for_ready,
       OnlySendSerialCommandOnChange("Yes"),
       OnlySendSerialCommandOnChange("No"),
       SerialCommand("SPEED X=scan_axis_speed"),
       wait_for_ready,
       SerialCommand("1SCAN X? Y=0 Z=9 F=0"),
       wait_for_ready,
       SerialCommand("1SCANR X=scan_axis_start_mm Y=scan_axis_end_mm R=25"),
       wait_for_ready,
       OnlySendSerialCommandOnChange("Yes") >>

\* mutant of post_hardware_hook: 'transmit repeated commands' is never turned on
post_hardware_hook_no_switch ==
    << wait_for_ready,
       OnlySendSerialCommandOnChange("Yes"),
       statement("return") >>

\* mutant of post_hardware_hook: returns without waiting for the Tiger
post_hardware_hook_no_wait ==
    << OnlySendSerialCommandOnChange("No"),
       OnlySendSerialCommandOnChange("Yes"),
       statement("return") >>

\* def post_hardware_hook(event,bridge,event_queue)
post_hardware_hook ==
    << OnlySendSerialCommandOnChange("No"),
       wait_for_ready,
       OnlySendSerialCommandOnChange("Yes"),
       statement("return") >>

\* def post_camera_hook_(event,bridge,event_queue)
post_camera_hook_ ==
    << SerialCommand("1SCAN"),
       statement("return") >>

\* mutant of RunAcquisitionCell: the camera trigger mode is not set back
RunAcquisitionCell_no_restore ==
    << set_property("Camera", "TriggerMode", "Trigger first"),
       statement("Acquisition"),
       statement("acquire"),
       statement("exit"),
       [op |-> "set_config", dev |-> "Coherent-State", prop |-> "", val |-> "off"],
       [op |-> "wait_for_config", dev |-> "Coherent-State", prop |-> "", val |-> "off"] >>

\* the cell "Run acquisition"
RunAcquisitionCell ==
    << set_property("Camera", "TriggerMode", "Trigger first"),
       statement("Acquisition"),
       statement("acquire"),
       statement("exit"),
       [op |-> "set_config", dev |-> "Coherent-State", prop |-> "", val |-> "off"],
       [op |-> "wait_for_config", dev |-> "Coherent-State", prop |-> "", val |-> "off"],
       set_property("Camera", "TriggerMode", "Internal Trigger") >>

\* the statements of a code unit
code(u) ==
    CASE u = "tiger_setup" -> TigerSetupCell
      [] u = "post_hardware_hook" -> post_hardware_hook
      [] u = "post_camera_hook_" -> post_camera_hook_
      [] u = "run_acquisition" -> RunAcquisitionCell
      [] OTHER -> << >>

\* the statement that executes next
at(op) == ip \in DOMAIN code(unit) /\ code(unit)[ip].op = op
stmt == code(unit)[ip]

\* the line a unit is at when it reaches statement i: the first line of a
\* wait-for-ready loop, or no loop
first_line(u, i) ==
    IF i \in DOMAIN code(u) /\ code(u)[i].op = "poll" THEN "ready" ELSE "-"

\* the device properties the notebook sets or reads
Properties ==
    { <<"PLogic:E:36", "PointerPosition">>, <<"PLogic:E:36", "EditCellConfig">>,
      <<"TigerCommHub", "OnlySendSerialCommandOnChange">>,
      <<"TigerCommHub", "SerialCommand">>, <<"TigerCommHub", "SerialResponse">>,
      <<"Camera", "TriggerMode">> }

\* 'transmit repeated commands': a value written to SerialCommand is sent to
\* the Tiger unless only-send-on-change is 'Yes' and the value is the one
\* written last
transmitted(command) ==
    \/ props[<<"TigerCommHub", "OnlySendSerialCommandOnChange">>] = "No"
    \/ props[<<"TigerCommHub", "SerialCommand">>] # command

\* the history of a step that issues a statement of the run cell
issue(s) == IF unit = "run_acquisition" THEN Append(issued, s) ELSE issued

\* core.set_property(dev, prop, val) of a cell or a hook (and the sleep that
\* follows it).  A serial command other than STATUS is noted in written with
\* whether it was transmitted and whether a STATUS poll has answered 'N' since
\* the command before it.
core_set_property ==
    /\ at("set_property")
    /\ props' = [props EXCEPT ![<<stmt.dev, stmt.prop>>] = stmt.val]
    /\ IF stmt.prop = "SerialCommand"
       THEN /\ written' = Append(written, [command |-> stmt.val,
                                           sent |-> transmitted(stmt.val),
                                           polled |-> polls.answered])
            /\ polls' = [status |-> 0, answered |-> FALSE]
       ELSE UNCHANGED <<written, polls>>
    /\ issued' = issue(stmt)
    /\ ip' = ip + 1
    /\ line' = first_line(unit, ip + 1)
    /\ UNCHANGED <<unit, ready, config, engine, kernel>>
    /\ UNCHANGED <<viewer_vars, builder_vars, acquire_vars>>

\* ready='B'
ready_B ==
    /\ at("poll") /\ line = "ready"
    /\ ready' = "B"
    /\ line' = "while"
    /\ polls' = [polls EXCEPT !.status = 0]
    /\ UNCHANGED <<unit, ip, props, config, engine, kernel, written, issued>>
    /\ UNCHANGED <<viewer_vars, builder_vars, acquire_vars>>

\* mutant of while_ready: gives up after MaxPolls STATUS commands
while_ready_gives_up ==
    /\ at("poll") /\ line = "while"
    /\ IF ready # "N" /\ polls.status < MaxPolls
       THEN /\ line' = "command"
            /\ UNCHANGED ip
       ELSE /\ ip' = ip + 1
            /\ line' = first_line(unit, ip + 1)
    /\ UNCHANGED <<unit, ready, props, config, engine, kernel, written, polls, issued>>
    /\ UNCHANGED <<viewer_vars, builder_vars, acquire_vars>>

\* mutant of while_ready: polls once more after the answer 'N'
while_ready_once_more ==
    /\ at("poll") /\ line = "while"
    /\ IF ready # "N" \/ polls.status < MaxPolls
       THEN /\ line' = "command"
            /\ UNCHANGED ip
       ELSE /\ ip' = ip + 1
            /\ line' = first_line(unit, ip + 1)
    /\ UNCHANGED <<unit, ready, props, config, engine, kernel, written, polls, issued>>
    /\ UNCHANGED <<viewer_vars, builder_vars, acquire_vars>>

\* while(ready!='N'):
while_ready ==
    /\ at("poll") /\ line = "while"
    /\ IF ready # "N"
       THEN /\ line' = "command"
            /\ UNCHANGED ip
       ELSE /\ ip' = ip + 1
            /\ line' = first_line(unit, ip + 1)
    /\ UNCHANGED <<unit, ready, props, config, engine, kernel, written, polls, issued>>
    /\ UNCHANGED <<viewer_vars, builder_vars, acquire_vars>>

\* command = 'STATUS'; core.set_property('TigerCommHub','SerialCommand',command)
\* A STATUS that is transmitted is answered by the Tiger with 'B' (busy) or 'N'
\* (not busy); one that is not transmitted leaves the response of before.
send_STATUS ==
    /\ at("poll") /\ line = "command"
    /\ \E answer \in {"B", "N"} :
          props' = [props EXCEPT
              ![<<"TigerCommHub", "SerialCommand">>] = "STATUS",
              ![<<"TigerCommHub", "SerialResponse">>] =
                  IF transmitted("STATUS") THEN answer ELSE @]
    /\ polls' = [polls EXCEPT
                    !.status = IF @ < MaxPolls THEN @ + 1 ELSE MaxPolls]
    /\ line' = "response"
    /\ UNCHANGED <<unit, ip, ready, config, engine, kernel, written, issued>>
    /\ UNCHANGED <<viewer_vars, builder_vars, acquire_vars>>

\* ready = core.get_property('TigerCommHub','SerialResponse'); sleep(.500)
get_SerialResponse ==
    /\ at("poll") /\ line = "response"
    /\ ready' = props[<<"TigerCommHub", "SerialResponse">>]
    /\ polls' = [polls EXCEPT !.answered = @ \/ ready' = "N"]
    /\ line' = "while"
    /\ UNCHANGED <<unit, ip, props, config, engine, kernel, written, issued>>
    /\ UNCHANGED <<viewer_vars, builder_vars, acquire_vars>>

\* the Tiger setup cell has finished and the user runs the cell "Run acquisition"
run_acquisition ==
    /\ unit = "tiger_setup" /\ ip = Len(TigerSetupCell) + 1
    /\ unit' = "run_acquisition"
    /\ ip' = 1
    /\ line' = first_line("run_acquisition", 1)
    /\ UNCHANGED <<ready, props, config, engine, kernel, written, polls, issued>>
    /\ UNCHANGED <<viewer_vars, builder_vars, acquire_vars>>

\* with Acquisition(directory=save_directory, name=save_name,
\*                  post_hardware_hook_fn=post_hardware_hook,
\*                  post_camera_hook_fn=post_camera_hook, ...) as acq:
\* The notebook defines post_camera_hook_ ; the name post_camera_hook is bound
\* only if the kernel holds it, otherwise the call raises NameError.
Acquisition ==
    /\ unit = "run_acquisition" /\ at("Acquisition")
    /\ IF "post_camera_hook" \in kernel
       THEN /\ ip' = ip + 1
            /\ issued' = issue(stmt)
            /\ UNCHANGED unit
       ELSE /\ unit' = "raised"
            /\ UNCHANGED <<ip, issued>>
    /\ UNCHANGED <<line, ready, props, config, engine, kernel, written, polls>>
    /\ UNCHANGED <<viewer_vars, builder_vars, acquire_vars>>

\* a hook that returns nothing (None): the engine drops the event
NoEvent == [sequence |-> 0, channel |-> "none"]

\* mutant of event: the hook ends without a return statement
event_not_returned == NoEvent

\* the parameter event of the hook that is running: the engine's event of the
\* current hardware sequence; no statement of either hook assigns or changes it
event == engine.event

\* acq.acquire(events): the engine makes hardware sequences of the events
acquire ==
    /\ unit = "run_acquisition" /\ at("acquire")
    /\ \E n \in 0..MaxSequences :
          engine' = [phase |-> IF n = 0 THEN "finished" ELSE "hardware",
                     sequences |-> n, event |-> NoEvent, returned |-> NoEvent]
    /\ issued' = issue(stmt)
    /\ ip' = ip + 1
    /\ UNCHANGED <<unit, line, ready, props, config, kernel, written, polls>>
    /\ UNCHANGED <<viewer_vars, builder_vars, acquire_vars>>

\* The engine sets up the hardware of the next sequence (the channel config
\* and the stage positions of its events) and then runs post_hardware_hook:
\* "run once after the acquisition engine sets up the hardware".
engine_hardware ==
    /\ unit = "run_acquisition" /\ at("exit")
    /\ engine.phase = "hardware"
    /\ \E c \in 0..(NumLasers - 1) :
          /\ config' = channel_config(c)
          /\ engine' = [engine EXCEPT
                           !.phase = "post_hardware",
                           !.event = [sequence |-> engine.sequences,
                                      channel |-> channel_config(c)],
                           !.returned = NoEvent]
    /\ unit' = "post_hardware_hook"
    /\ ip' = 1
    /\ line' = first_line("post_hardware_hook", 1)
    /\ UNCHANGED <<ready, props, kernel, written, polls, issued>>
    /\ UNCHANGED <<viewer_vars, builder_vars, acquire_vars>>

\* The engine puts the camera into active mode and then runs the post-camera
\* hook: "run once after the camera is put into active mode in the sequence
\* acquisition".  The function bound to post_camera_hook is post_camera_hook_.
engine_camera ==
    /\ unit = "run_acquisition" /\ at("exit")
    /\ engine.phase = "camera"
    /\ engine' = [engine EXCEPT !.phase = "post_camera",
                                 !.event = engine.returned,
                                 !.returned = NoEvent]
    /\ unit' = "post_camera_hook_"
    /\ ip' = 1
    /\ line' = first_line("post_camera_hook_", 1)
    /\ UNCHANGED <<ready, props, config, kernel, written, polls, issued>>
    /\ UNCHANGED <<viewer_vars, builder_vars, acquire_vars>>

\* return event: the hook returns to the engine
return_event ==
    /\ unit \in {"post_hardware_hook", "post_camera_hook_"} /\ at("return")
    /\ engine' = [engine EXCEPT
                     !.phase = IF unit = "post_hardware_hook" THEN "camera"
                               ELSE "collect",
                     !.returned = event]
    /\ unit' = "run_acquisition"
    /\ ip' = 4
    /\ line' = "-"
    /\ UNCHANGED <<ready, props, config, kernel, written, polls, issued>>
    /\ UNCHANGED <<viewer_vars, builder_vars, acquire_vars>>

\* the engine collects the images of the sequence and goes on to the next
engine_collect ==
    /\ unit = "run_acquisition" /\ at("exit")
    /\ engine.phase = "collect"
    /\ engine' = [engine EXCEPT
                     !.phase = IF engine.sequences = 1 THEN "finished" ELSE "hardware",
                     !.sequences = engine.sequences - 1]
    /\ UNCHANGED <<unit, ip, line, ready, props, config, kernel, written, polls,
                   issued>>
    /\ UNCHANGED <<viewer_vars, builder_vars, acquire_vars>>

\* the end of the with Acquisition block: returns when the engine has finished
Acquisition_exit ==
    /\ unit = "run_acquisition" /\ at("exit")
    /\ engine.phase = "finished"
    /\ issued' = issue(stmt)
    /\ ip' = ip + 1
    /\ UNCHANGED <<unit, line, ready, props, config, engine, kernel, written, polls>>
    /\ UNCHANGED <<viewer_vars, builder_vars, acquire_vars>>

\* core.set_config('Coherent-State','off')
core_set_config ==
    /\ at("set_config")
    /\ config' = stmt.val
    /\ issued' = issue(stmt)
    /\ ip' = ip + 1
    /\ UNCHANGED <<unit, line, ready, props, engine, kernel, written, polls>>
    /\ UNCHANGED <<viewer_vars, builder_vars, acquire_vars>>

\* core.wait_for_config('Coherent-State','off')
core_wait_for_config ==
    /\ at("wait_for_config")
    /\ issued' = issue(stmt)
    /\ ip' = ip + 1
    /\ UNCHANGED <<unit, line, ready, props, config, engine, kernel, written, polls>>
    /\ UNCHANGED <<viewer_vars, builder_vars, acquire_vars>>

\* mutant of raises: the exception is caught and the devices are restored
raises_and_restores ==
    /\ unit = "run_acquisition" /\ ip \in DOMAIN RunAcquisitionCell
    /\ unit' = "raised"
    /\ config' = "off"
    /\ props' = [props EXCEPT ![<<"Camera", "TriggerMode">>] = "Internal Trigger"]
    /\ UNCHANGED <<ip, line, ready, engine, kernel, written, polls, issued>>
    /\ UNCHANGED <<viewer_vars, builder_vars, acquire_vars>>

\* A call of the run cell into the runtime raises (a device call, Acquisition,
\* acq.acquire or the engine behind the with block).  The cell has no try, so
\* the exception ends the cell.
raises ==
    /\ unit = "run_acquisition" /\ ip \in DOMAIN RunAcquisitionCell
    /\ unit' = "raised"
    /\ UNCHANGED <<ip, line, ready, props, config, engine, kernel, written, polls,
                   issued>>
    /\ UNCHANGED <<viewer_vars, builder_vars, acquire_vars>>

\* the device cells are not run in this kernel
DeviceOff ==
    /\ unit = "off" /\ ip = 0 /\ line = "-" /\ ready = ""
    /\ props = [k \in Properties |-> ""]
    /\ config = "off"
    /\ engine = [phase |-> "idle", sequences |-> 0, event |-> NoEvent,
                 returned |-> NoEvent]
    /\ kernel = {}
    /\ written = <<>>
    /\ polls = [status |-> 0, answered |-> FALSE]
    /\ issued = <<>>

\* the limits (start, end) of one axis the user can enter: from 0 up to a
\* multiple of half a step, and from MaxSteps steps down to 0
AxisLimits(step) ==
    LET marks == {(k * step) \div 2 : k \in 0..(2 * MaxSteps)}
    IN  {<<0, e>> : e \in marks} \cup {<<MaxSteps * step, 0>>}

\* the laser states the user can enter: none, one, two or all lasers active
LaserChoices ==
    LET active(cs) == Cardinality({c \in 1..NumLasers : cs[c] = 1})
    IN  {cs \in [1..NumLasers -> {0, 1}] : active(cs) <= 2 \/ active(cs) = NumLasers}

NoLoop == [pc |-> "off", y |-> 0, z |-> 0, c |-> 0, x |-> 0,
           tile_position_um |-> 0, height_position_um |-> 0]
NoParams == [scan_axis_start_um |-> 0, scan_axis_end_um |-> 0,
             tile_axis_start_um |-> 0, tile_axis_end_um |-> 0,
             height_axis_start_um |-> 0, height_axis_end_um |-> 0,
             channel_states |-> <<0, 0, 0, 0, 0>>]

\* the stage-scan notebook is not run in the viewer's kernel
BuilderOff == params = NoParams /\ loop = NoLoop /\ events = <<>>

\* the viewer notebook is not run in the stage-scan kernel
ViewerOff ==
    /\ acq_running = FALSE
    /\ z_range = [i \in 0..3 |-> 0]
    /\ channels = [i \in 0..1 |-> 0]
    /\ img_queue = <<>>
    /\ data = <<>>
    /\ append_workers = <<>>
    /\ yield_workers = <<>>
    /\ shown = <<>>
    /\ task_done = 0
    /\ puts = 0
    /\ presses = 0
    /\ lastCall = [fn |-> "none", running |-> FALSE]

\* the state when the cell "Create event structure" starts: the parameters as
\* the user entered them, events = []
BuilderInit ==
    /\ \E s \in AxisLimits(scan_axis_step_um),
          t \in AxisLimits(tile_axis_step_um),
          h \in AxisLimits(height_axis_step_um),
          cs \in LaserChoices :
            params = [scan_axis_start_um |-> s[1], scan_axis_end_um |-> s[2],
                      tile_axis_start_um |-> t[1], tile_axis_end_um |-> t[2],
                      height_axis_start_um |-> h[1], height_axis_end_um |-> h[2],
                      channel_states |-> cs]
    /\ loop = [NoLoop EXCEPT !.pc = "for_y"]
    /\ events = <<>>
    /\ ViewerOff
    /\ DeviceOff
    /\ AcquireOff

BuilderNext ==
    \/ for_y
    \/ for_z
    \/ for_c
    \/ for_x

BuilderSpec == BuilderInit /\ [][BuilderNext]_vars

\* The state when the Tiger setup cell starts: the laser cell has set
\* 'Coherent-State' to 'off', the camera cell has set 'Internal Trigger', the
\* only-send-on-change property is as the device adapter has it, and the kernel
\* holds the names the notebook defines, with or without post_camera_hook.
DeviceInit ==
    /\ unit = "tiger_setup" /\ ip = 1 /\ line = "-" /\ ready = ""
    /\ \E only \in {"Yes", "No"} :
          props = [k \in Properties |->
                     CASE k = <<"Camera", "TriggerMode">> -> "Internal Trigger"
                       [] k = <<"TigerCommHub", "OnlySendSerialCommandOnChange">> -> only
                       [] OTHER -> ""]
    /\ config = "off"
    /\ engine = [phase |-> "idle", sequences |-> 0, event |-> NoEvent,
                 returned |-> NoEvent]
    /\ kernel \in {{"post_hardware_hook", "post_camera_hook_"},
                   {"post_hardware_hook", "post_camera_hook_", "post_camera_hook"}}
    /\ written = <<>>
    /\ polls = [status |-> 0, answered |-> FALSE]
    /\ issued = <<>>
    /\ ViewerOff
    /\ BuilderOff
    /\ AcquireOff

\* the steps of the notebook's own code and of the engine
DeviceStep ==
    \/ core_set_property
    \/ ready_B
    \/ while_ready
    \/ send_STATUS
    \/ get_SerialResponse
    \/ run_acquisition
    \/ Acquisition
    \/ acquire
    \/ engine_hardware
    \/ engine_camera
    \/ return_event
    \/ engine_collect
    \/ Acquisition_exit
    \/ core_set_config
    \/ core_wait_for_config

DeviceNext ==
    \/ DeviceStep
    \/ raises

DeviceSpec == DeviceInit /\ [][DeviceNext]_vars

\* the notebook is single-threaded and blocking: the statement that is next
\* is executed
DeviceFair == DeviceSpec /\ WF_vars(DeviceStep)

\* ======================================================= viewer specification
\* the state after the cells that define the constants and the viewer have run
Init ==
    /\ acq_running = FALSE
    /\ z_range = [i \in 0..3 |-> IF i = 2 THEN NSlices ELSE 0]
    /\ \E n \in 1..MaxChannels : channels = [i \in 0..1 |-> IF i = 0 THEN n ELSE 0]
    /\ img_queue = <<>>
    /\ \E r \in rand : data = [z \in 0..(NSlices - 1) |-> ones_times(clip, r + z)]
    /\ append_workers = <<>>
    /\ yield_workers = <<>>
    /\ shown = <<>>
    /\ task_done = 0
    /\ puts = 0
    /\ presses = 0
    /\ lastCall = [fn |-> "none", running |-> FALSE]
    /\ BuilderOff
    /\ DeviceOff
    /\ AcquireOff

Next ==
    \/ start_acq
    \/ stop_acq
    \/ \E w \in DOMAIN append_workers : append_while(w)
    \/ \E w \in DOMAIN append_workers : append_put(w)
    \/ \E w \in DOMAIN append_workers : append_z_read(w)
    \/ \E w \in DOMAIN append_workers : append_z_write(w)
    \/ \E w \in DOMAIN append_workers : append_wrap(w)
    \/ \E w \in DOMAIN append_workers : append_ch_read(w)
    \/ \E w \in DOMAIN append_workers : append_ch_write(w)
    \/ \E w \in DOMAIN yield_workers : yield_while(w)
    \/ \E w \in DOMAIN yield_workers : yield_qsize(w)
    \/ \E w \in DOMAIN yield_workers : yield_drain(w)
    \/ \E w \in DOMAIN yield_workers : yield_get(w)
    \/ \E w \in DOMAIN yield_workers : yield_yield(w)

Spec == Init /\ [][Next]_vars

\* each worker is a thread of its own, and a runnable thread is scheduled
\* again after a bounded time; the buttons are pressed or not as the user likes
Fairness ==
    \A w \in 1..MaxPresses :
        /\ WF_vars(w \in DOMAIN append_workers /\ append_img(w))
        /\ WF_vars(w \in DOMAIN yield_workers /\ yield_img(w))

SpecFair == Spec /\ Fairness

\* ============================================== viewer notebook: acquire_data
\* --- bounds: the largest z position (um) and the largest number of slices
\* the user enters in z_range for an acquisition with the external z stage
MaxZ == 2
MaxEvents == 3

\* np.linspace(start, stop, num) computes arange(num) * (delta / div) + start
\* with div = num - 1, and then sets the last sample to stop when num > 1.
\* The samples are kept here in units of 1/div um, so that they are integers;
\* for num = 1 numpy has div = 0, multiplies by delta instead, and the unit is 1.
linspace_div(num) == IF num > 1 THEN num - 1 ELSE 1
linspace(start, stop, num) ==
    [i \in 1..num |->
        IF num > 1 /\ i = num
        THEN stop * linspace_div(num)
        ELSE (i - 1) * (stop - start) + start * linspace_div(num)]

\* mutant of enumerate: the count starts at one
enumerate_from_one(seq) == [i \in DOMAIN seq |-> [index |-> i, z_um |-> seq[i]]]

\* enumerate(...): the pairs (index, z_um), index from 0
enumerate(seq) == [i \in DOMAIN seq |-> [index |-> i - 1, z_um |-> seq[i]]]

\* with Acquisition(directory=None, name=None, show_display=True,
\*                  image_process_fn = grab_image) as acq:
\*     events = []
acquire_data_with ==
    /\ acq_line = "with"
    /\ acq_events' = <<>>
    /\ acq_line' = "for"
    /\ UNCHANGED <<acq_acquired, acq_incoming, acq_returned>>
    /\ UNCHANGED <<viewer_vars, builder_vars, device_vars>>

\* for index, z_um in enumerate(np.linspace(z_range[0], z_range[1], z_range[2])):
\*     evt = {"axes": {"z_ext": index}, "z_ext": z_um}
\*     events.append(evt)
acquire_data_for ==
    /\ acq_line = "for"
    /\ LET pairs == enumerate(linspace(z_range[0], z_range[1], z_range[2]))
           k == Len(acq_events) + 1
       IN  IF k <= Len(pairs)
           THEN /\ acq_events' = Append(acq_events,
                      [axes |-> [z_ext |-> pairs[k].index], z_ext |-> pairs[k].z_um])
                /\ UNCHANGED acq_line
           ELSE /\ acq_line' = "acquire"
                /\ UNCHANGED acq_events
    /\ UNCHANGED <<acq_acquired, acq_incoming, acq_returned>>
    /\ UNCHANGED <<viewer_vars, builder_vars, device_vars>>

\* acq.acquire(events)
acquire_data_acquire ==
    /\ acq_line = "acquire"
    /\ acq_acquired' = Append(acq_acquired, acq_events)
    /\ acq_line' = "exit"
    /\ UNCHANGED <<acq_events, acq_incoming, acq_returned>>
    /\ UNCHANGED <<viewer_vars, builder_vars, device_vars>>

\* --- bound: the largest number of rows and of columns of a camera image
MaxImage == 3

\* an image of the camera; the value of a pixel tells its row and column
camera_image(rows, cols) == [r \in 1..rows |-> [c \in 1..cols |-> 10 * r + c]]

\* np.shape(image)
shape(image) == <<Len(image), IF Len(image) = 0 THEN 0 ELSE Len(image[1])>>

\* the index Python uses for bound i of a slice of a sequence of length n: a
\* negative bound counts from the end, and bounds are cut to 0..n
slice_index(i, n) ==
    IF i < 0 THEN (IF i + n < 0 THEN 0 ELSE i + n)
    ELSE IF i > n THEN n ELSE i

\* seq[lo:hi]
slice(seq, lo, hi) ==
    LET a == slice_index(lo, Len(seq))
        b == slice_index(hi, Len(seq))
    IN  IF a < b THEN SubSeq(seq, a + 1, b) ELSE <<>>

\* mutant of image_clipped: the clip is taken from the top left corner
image_clipped_corner(image) ==
    LET rows == slice(image, 0, clip[1])
    IN  [r \in DOMAIN rows |-> slice(rows[r], 0, clip[2])]

\* image_clipped = image[(size[0]-clip[0])//2:(size[0]+clip[0])//2,
\*                       (size[1]-clip[1])//2:(size[1]+clip[1])//2]
image_clipped(image) ==
    LET size == shape(image)
        rows == slice(image, (size[1] - clip[1]) \div 2, (size[1] + clip[1]) \div 2)
    IN  [r \in DOMAIN rows |->
            slice(rows[r], (size[2] - clip[2]) \div 2, (size[2] + clip[2]) \div 2)]

\* place_data(image), called from the one thread that processes the images
place_data(image) ==
    /\ place_data_put(image)
    /\ z_range' = [z_range EXCEPT ![3] = next_z(z_range[3])]
    /\ channels' = IF next_z(z_range[3]) = 0
                   THEN [channels EXCEPT ![1] = next_channel(channels[1])]
                   ELSE channels

\* the acquisition has the image of the next event and calls grab_image, its
\* image_process_fn, with the image and its metadata
acquisition_image ==
    /\ acq_line \in {"exit", "multid_exit"}
    /\ acq_incoming = <<>>
    /\ puts < Len(acq_events)
    /\ \E rows \in 1..MaxImage, cols \in 1..MaxImage :
          acq_incoming' = <<camera_image(rows, cols),
                            [Axes |-> acq_events[puts + 1].axes]>>
    /\ UNCHANGED <<acq_line, acq_events, acq_acquired, acq_returned>>
    /\ UNCHANGED <<viewer_vars, builder_vars, device_vars>>

\* def grab_image(image, metadata)
grab_image ==
    /\ acq_line \in {"exit", "multid_exit"}
    /\ acq_incoming # <<>>
    /\ LET image == acq_incoming[1]
           metadata == acq_incoming[2]
       IN  /\ place_data(image_clipped(image))
           /\ acq_returned' = <<image, metadata>>
    /\ acq_incoming' = <<>>
    /\ UNCHANGED <<acq_running, data, append_workers, yield_workers, shown,
                   task_done, presses, lastCall>>
    /\ UNCHANGED <<acq_line, acq_events, acq_acquired>>
    /\ UNCHANGED <<builder_vars, device_vars>>

\* the end of the with block: the acquisition is finished, acquire_data returns
acquire_data_exit ==
    /\ acq_line = "exit"
    /\ puts = Len(acq_events)
    /\ acq_incoming = <<>>
    /\ acq_line' = "done"
    /\ UNCHANGED <<acq_events, acq_acquired, acq_incoming, acq_returned>>
    /\ UNCHANGED <<viewer_vars, builder_vars, device_vars>>

\* acquire_data(z_range) is called with the z range the user configured
AcquireInit ==
    /\ \E start \in 0..MaxZ, stop \in 0..MaxZ, num \in 1..MaxEvents :
           z_range = [i \in 0..3 |-> CASE i = 0 -> start [] i = 1 -> stop
                                       [] i = 2 -> num [] OTHER -> 0]
    /\ acq_running = TRUE
    /\ channels = [i \in 0..1 |-> IF i = 0 THEN 1 ELSE 0]
    /\ img_queue = <<>>
    /\ data = <<>>
    /\ append_workers = <<>>
    /\ yield_workers = <<>>
    /\ shown = <<>>
    /\ task_done = 0
    /\ puts = 0
    /\ presses = 0
    /\ lastCall = [fn |-> "none", running |-> FALSE]
    /\ acq_line = "with"
    /\ acq_events = <<>>
    /\ acq_acquired = <<>>
    /\ acq_incoming = <<>> /\ acq_returned = <<>>
    /\ BuilderOff
    /\ DeviceOff

AcquireNext ==
    \/ acquire_data_with
    \/ acquire_data_for
    \/ acquire_data_acquire
    \/ acquisition_image
    \/ grab_image
    \/ acquire_data_exit

AcquireSpec == AcquireInit /\ [][AcquireNext]_vars

\* ============================================ viewer notebook: acquire_multid
\* z_step=(z_range[1]-z_range[0])/(z_range[2]-1): the division has a value
\* unless the divisor is 0, when Python raises ZeroDivisionError
z_step_defined == z_range[2] - 1 # 0

\* multi_d_acquisition_events(z_start, z_end, z_step): one event for each
\* position z_start, z_start + z_step, ... up to z_end, with its index on the z
\* axis.  With z_step = (z_end - z_start) / div the positions are kept in units
\* of 1/div um.
multi_d_acquisition_events(z_start, z_end, div) ==
    [i \in 1..(div + 1) |->
        [axes |-> [z |-> i - 1], z |-> z_start * div + (i - 1) * (z_end - z_start)]]

\* with Acquisition(directory=None, name=None, show_display=False,
\*                  image_process_fn = grab_image) as acq:
acquire_multid_with ==
    /\ acq_line = "multid_with"
    /\ acq_line' = "multid_events"
    /\ UNCHANGED <<acq_events, acq_acquired, acq_incoming, acq_returned>>
    /\ UNCHANGED <<viewer_vars, builder_vars, device_vars>>

\* events = multi_d_acquisition_events(z_start=z_range[0], z_end=z_range[1],
\*                 z_step=(z_range[1]-z_range[0])/(z_range[2]-1))
acquire_multid_events ==
    /\ acq_line = "multid_events"
    /\ IF z_step_defined
       THEN /\ acq_events' = multi_d_acquisition_events(z_range[0], z_range[1],
                                                        z_range[2] - 1)
            /\ acq_line' = "multid_acquire"
       ELSE /\ acq_line' = "ZeroDivisionError"
            /\ UNCHANGED acq_events
    /\ UNCHANGED <<acq_acquired, acq_incoming, acq_returned>>
    /\ UNCHANGED <<viewer_vars, builder_vars, device_vars>>

\* acq.acquire(events)
acquire_multid_acquire ==
    /\ acq_line = "multid_acquire"
    /\ acq_acquired' = Append(acq_acquired, acq_events)
    /\ acq_line' = "multid_exit"
    /\ UNCHANGED <<acq_events, acq_incoming, acq_returned>>
    /\ UNCHANGED <<viewer_vars, builder_vars, device_vars>>

\* the end of the with block: the acquisition is finished, acquire_multid returns
acquire_multid_exit ==
    /\ acq_line = "multid_exit"
    /\ puts = Len(acq_events)
    /\ acq_incoming = <<>>
    /\ acq_line' = "multid_done"
    /\ UNCHANGED <<acq_events, acq_acquired, acq_incoming, acq_returned>>
    /\ UNCHANGED <<viewer_vars, builder_vars, device_vars>>

\* acquire_multid(z_range) is called with the z range the user configured, the
\* start and the end of which differ (what multi_d_acquisition_events does
\* with a step of 0 is decided outside the notebook)
MultidInit ==
    /\ \E start \in 0..MaxZ, stop \in 0..MaxZ, num \in 1..MaxEvents :
           /\ start # stop
           /\ z_range = [i \in 0..3 |-> CASE i = 0 -> start [] i = 1 -> stop
                                          [] i = 2 -> num [] OTHER -> 0]
    /\ acq_running = TRUE
    /\ channels = [i \in 0..1 |-> IF i = 0 THEN 1 ELSE 0]
    /\ img_queue = <<>>
    /\ data = <<>>
    /\ append_workers = <<>>
    /\ yield_workers = <<>>
    /\ shown = <<>>
    /\ task_done = 0
    /\ puts = 0
    /\ presses = 0
    /\ lastCall = [fn |-> "none", running |-> FALSE]
    /\ acq_line = "multid_with"
    /\ acq_events = <<>>
    /\ acq_acquired = <<>>
    /\ acq_incoming = <<>> /\ acq_returned = <<>>
    /\ BuilderOff
    /\ DeviceOff

MultidNext ==
    \/ acquire_multid_with
    \/ acquire_multid_events
    \/ acquire_multid_acquire
    \/ acquisition_image
    \/ grab_image
    \/ acquire_multid_exit

MultidSpec == MultidInit /\ [][MultidNext]_vars

\* ===================================================================== claims
\* worker w's thread has ended: it left its loops, or an exception ended it
append_terminated(w) ==
    w \in DOMAIN append_workers /\ append_workers[w].pc = "done"
yield_terminated(w) ==
    w \in DOMAIN yield_workers /\ yield_workers[w].pc \in {"done", "raised"}

\* the model lets no further frame be enqueued, and worker w waits at its put
held_at_put(w) ==
    w \in DOMAIN append_workers /\ append_workers[w].pc = "put" /\ puts = MaxPuts

\* C1: after stop_acq has set acq_running to False, every append_img worker
\* and every yield_img worker that an earlier start_acq started eventually
\* leaves its loop and terminates.  (An append_img worker that the frame budget
\* of the model holds at its put counts as stopped, so only a worker that the
\* code itself keeps looping violates this.)
C1_StopStopsWorkers ==
    \A w \in 1..MaxPresses :
        (lastCall.fn = "stop_acq" /\ w \in DOMAIN append_workers)
            ~> (yield_terminated(w) /\ (append_terminated(w) \/ held_at_put(w)))

\* a step that is a call of start_acq
StartCalled == presses' = presses + 1 /\ lastCall'.fn = "start_acq"

\* C2: start_acq called while acq_running is False resets z_range[3] to 0, sets
\* acq_running to True and starts exactly one append_img worker and exactly
\* one yield_img worker.
C2_StartWhenIdle ==
    [][(StartCalled /\ ~acq_running) =>
          /\ z_range'[3] = 0
          /\ acq_running' = TRUE
          /\ Len(append_workers') = Len(append_workers) + 1
          /\ Len(yield_workers') = Len(yield_workers) + 1
          /\ SubSeq(append_workers', 1, Len(append_workers)) = append_workers
          /\ SubSeq(yield_workers', 1, Len(yield_workers)) = yield_workers
          /\ append_workers'[Len(append_workers')].pc = "while"
          /\ yield_workers'[Len(yield_workers')].pc = "while"]_vars

\* a second start_acq found the flag False and a z position an earlier worker
\* had moved to 1, and reset it
C2_Witness ==
    /\ lastCall = [fn |-> "start_acq", running |-> FALSE]
    /\ Len(append_workers) = 2
    /\ append_workers[1].pc = "wrap"
    /\ puts = 1
    /\ z_range[3] = 0

\* C3: start_acq called while acq_running is True starts no worker and leaves
\* acq_running, z_range[3], channels[1] and the queue unchanged.
C3_StartWhenRunning ==
    [][(StartCalled /\ acq_running) =>
          UNCHANGED <<acq_running, z_range, channels, img_queue,
                      append_workers, yield_workers>>]_vars

\* start_acq was called while frames were being produced
C3_Witness ==
    /\ lastCall = [fn |-> "start_acq", running |-> TRUE]
    /\ acq_running
    /\ Len(append_workers) = 1
    /\ Len(img_queue) = 2

\* C4: immediately after a dequeue in the running phase of yield_img (the get
\* inside  while img_queue.qsize() > 1) the queue still holds at least one
\* element.
C4_LeavesOneElement ==
    [][\A w \in DOMAIN yield_workers :
          (yield_workers[w].pc = "get" /\ yield_workers'[w].pc = "yield")
              => Len(img_queue') >= 1]_vars

\* C5: once acq_running is False and the two workers of a run have terminated,
\* the image queue is empty.
C5_QueueEmptyAfterRun ==
    \A w \in DOMAIN append_workers :
        (~acq_running /\ append_terminated(w) /\ yield_terminated(w))
            => img_queue = <<>>

\* C6: display_napari receives the frames in the order place_data enqueued
\* them, and no frame twice: the ids of the frames shown strictly increase.
C6_ShownInQueueOrder ==
    \A i, j \in DOMAIN shown : i < j => shown[i].id < shown[j].id

\* C7: 0 <= z_range[3] < z_range[2] and 0 <= channels[1] < channels[0] in every
\* state, and every enqueued frame carries a z position that is a slice index
\* of the data stack and a channel that is a layer index.
C7_PositionsValid ==
    /\ z_range[3] \in 0..(z_range[2] - 1)
    /\ channels[1] \in 0..(channels[0] - 1)
    /\ \A i \in DOMAIN img_queue :
          /\ img_queue[i].z \in DOMAIN data
          /\ img_queue[i].c \in 0..(channels[0] - 1)

\* the z position wrapped, the active channel advanced, and a frame of the
\* last slice is in the queue
C7_Witness ==
    /\ channels[1] = 1
    /\ z_range[3] = 0
    /\ \E i \in DOMAIN img_queue : img_queue[i].z = z_range[2] - 1

laser_of(e) ==
    CASE e.channel.config = "405nm" -> 0
      [] e.channel.config = "488nm" -> 1
      [] e.channel.config = "561nm" -> 2
      [] e.channel.config = "637nm" -> 3
      [] e.channel.config = "730nm" -> 4

\* (y, z, c, x) of event a comes before that of event b
yzcx_before(a, b) ==
    \/ a.axes.y < b.axes.y
    \/ a.axes.y = b.axes.y /\ a.axes.z < b.axes.z
    \/ a.axes.y = b.axes.y /\ a.axes.z = b.axes.z /\ laser_of(a) < laser_of(b)
    \/ /\ a.axes.y = b.axes.y /\ a.axes.z = b.axes.z /\ laser_of(a) = laser_of(b)
       /\ a.axes.x < b.axes.x

\* C9: the events are in the order of the loops y, z, c, x: sorted by
\* (y, z, c, x), and the list is made of runs of scan_axis_positions events of
\* one (y, z, c) whose x indices are 0, 1, ..., scan_axis_positions-1.
C9_LoopOrder ==
    /\ \A i \in 1..(Len(events) - 1) : yzcx_before(events[i], events[i + 1])
    /\ \A i \in DOMAIN events :
          /\ events[i].axes.x = (i - 1) % scan_axis_positions
          /\ (i > 1 /\ events[i].axes.x # 0) =>
                /\ events[i].axes.y = events[i - 1].axes.y
                /\ events[i].axes.z = events[i - 1].axes.z
                /\ laser_of(events[i]) = laser_of(events[i - 1])
    /\ loop.pc = "done" =>
          IF scan_axis_positions = 0 THEN events = <<>>
          ELSE Len(events) % scan_axis_positions = 0

\* a finished list with two tiles, two heights, two lasers and two scan steps
C9_Witness ==
    /\ loop.pc = "done"
    /\ Len(events) = 16
    /\ events[16].axes = [x |-> 1, y |-> 1, z |-> 1]
    /\ laser_of(events[1]) # laser_of(events[16])

\* C10: every event has 'x' equal to scan_axis_start_um, and 'y' and 'z' equal
\* to start + step * index for its tile and height indices.
C10_StageTargets ==
    \A i \in DOMAIN events :
        /\ events[i].x = params.scan_axis_start_um
        /\ events[i].y = params.tile_axis_start_um
                         + tile_axis_step_um * events[i].axes.y
        /\ events[i].z = params.height_axis_start_um
                         + height_axis_step_um * events[i].axes.z

\* an event of the second scan step of the second tile and second height, with
\* all three axes starting away from 0
C10_Witness ==
    /\ params.scan_axis_start_um > 0
    /\ params.tile_axis_start_um > 0
    /\ params.height_axis_start_um > 0
    /\ \E i \in DOMAIN events : events[i].axes = [x |-> 1, y |-> 1, z |-> 1]

\* the number of lasers the user set to active
active_channels ==
    Cardinality({c \in DOMAIN params.channel_states : params.channel_states[c] = 1})

\* C11: no event names the config of a laser with channel_states[c] # 1, and
\* the finished list has tile_axis_positions * height_axis_positions *
\* (number of active lasers) * scan_axis_positions events.
C11_ActiveLasersOnly ==
    /\ \A i \in DOMAIN events : params.channel_states[laser_of(events[i]) + 1] = 1
    /\ loop.pc = "done" =>
          Len(events) = tile_axis_positions * height_axis_positions
                        * active_channels * scan_axis_positions

\* a finished list of two tiles, two heights and two scan steps with one of
\* the five lasers active
C11_Witness ==
    /\ loop.pc = "done"
    /\ active_channels = 1
    /\ tile_axis_positions = 2
    /\ height_axis_positions = 2
    /\ scan_axis_positions = 2
    /\ Len(events) = 8

\* C12: no two events of the list carry the same recorded axis indices
\* ('axes').
C12_AxesUnique ==
    \A i, j \in DOMAIN events : i # j => events[i].axes # events[j].axes

\* C13: scan_axis_positions, tile_axis_positions and height_axis_positions are
\* each at least one, whatever range the user entered, a zero-length range
\* included.
C13_PositionCountsAtLeastOne ==
    /\ scan_axis_positions >= 1
    /\ tile_axis_positions >= 1
    /\ height_axis_positions >= 1

\* n is the integer nearest to range / step
nearest(n, range, step) == 2 * abs(n * step - range) <= step

\* n is range / step rounded as np.rint rounds: nearest, a tie to the even one
rounded(n, range, step) ==
    /\ nearest(n, range, step)
    /\ 2 * abs(n * step - range) = step => n % 2 = 0

scan_axis_range_um == abs(params.scan_axis_end_um - params.scan_axis_start_um)
tile_axis_range_um == abs(params.tile_axis_end_um - params.tile_axis_start_um)
height_axis_range_um == abs(params.height_axis_end_um - params.height_axis_start_um)

in_loop == at("poll") /\ line # "ready"

\* C16: the wait-for-ready loop has no failure path: a step taken inside the
\* loop that does not end with ready = 'N' stays inside the loop of the same
\* statement, whatever the number of polls before it, and issues no device
\* command other than STATUS, so a controller that never answers 'N' keeps the
\* loop running for ever.
C16_NoFailurePath ==
    [][(in_loop /\ ready' # "N") =>
          /\ in_loop'
          /\ unit' = unit /\ ip' = ip
          /\ written' = written /\ issued' = issued /\ config' = config
          /\ \A k \in Properties :
                props'[k] # props[k] =>
                    \/ k = <<"TigerCommHub", "SerialResponse">>
                    \/ k = <<"TigerCommHub", "SerialCommand">> /\ props'[k] = "STATUS"]_vars

\* the Tiger has answered 'B' to MaxPolls or more STATUS commands of the loop
\* after the last setup command, and the loop is about to send another one
C16_Witness ==
    /\ unit = "tiger_setup" /\ ip = Len(TigerSetupCell) - 1
    /\ line = "command"
    /\ ready = "B"
    /\ polls = [status |-> MaxPolls, answered |-> FALSE]
    /\ Len(written) = 5

\* C17: a wait-for-ready loop is left only after at least one STATUS and with
\* the answer 'N' read last; once 'N' has been read the next step of the loop
\* leaves it without another STATUS, and the loop is left eventually.
C17_PollTerminates ==
    /\ [][(in_loop /\ ~in_loop') =>
             /\ polls.status >= 1
             /\ ready = "N"
             /\ props[<<"TigerCommHub", "SerialResponse">>] = "N"]_vars
    /\ [][(in_loop /\ ready = "N") =>
             /\ ~in_loop'
             /\ ip' = ip + 1
             /\ props' = props]_vars
    /\ ((in_loop /\ ready = "N") ~> ~in_loop)

\* the loop of post_hardware_hook was left after a 'B' and then an 'N'
C17_Witness ==
    /\ unit = "post_hardware_hook" /\ ip = 3
    /\ ready = "N"
    /\ polls = [status |-> 2, answered |-> TRUE]
    /\ written[Len(written)].command = "1SCAN"

\* the run cell has executed its last statement
run_done == unit = "run_acquisition" /\ ip = Len(RunAcquisitionCell) + 1

\* the run cell is between its first and its last statement, the engine and
\* the hooks it runs included
run_between ==
    \/ unit = "run_acquisition" /\ ip \in 2..Len(RunAcquisitionCell)
    \/ unit \in {"post_hardware_hook", "post_camera_hook_"}

C20_OneWorkerOfEachKind ==
    /\ Cardinality({w \in DOMAIN append_workers : ~append_terminated(w)}) <= 1
    /\ Cardinality({w \in DOMAIN yield_workers : ~yield_terminated(w)}) <= 1

\* worker w of append_img takes the step from line a to line b of place_data
place_data_step(w, a, b) ==
    /\ w \in DOMAIN append_workers
    /\ append_workers[w].pc = a
    /\ append_workers'[w].pc = b

\* C21: a place_data call enqueues exactly one item, tagged with the current
\* (channel, z position); its store to z_range[3] advances the z position by
\* one modulo z_range[2]; it advances the active channel by one modulo
\* channels[0] exactly when it finds the z position wrapped to 0, and no other
\* step of the call changes the queue, the z position or the channel.
C21_PlaceData ==
    [][\A w \in DOMAIN append_workers :
          /\ place_data_step(w, "put", "z_read") =>
                /\ Len(img_queue') = Len(img_queue) + 1
                /\ SubSeq(img_queue', 1, Len(img_queue)) = img_queue
                /\ img_queue'[Len(img_queue')].c = channels[1]
                /\ img_queue'[Len(img_queue')].z = z_range[3]
                /\ UNCHANGED <<z_range, channels>>
          /\ place_data_step(w, "z_write", "wrap") =>
                /\ z_range'[3] = (z_range[3] + 1) % z_range[2]
                /\ UNCHANGED <<img_queue, channels>>
          /\ place_data_step(w, "wrap", "ch_read") => z_range[3] = 0
          /\ (append_workers[w].pc = "wrap" /\ append_workers'[w].pc \in {"put", "while"})
                => z_range[3] # 0
          /\ (append_workers[w].pc = "ch_write" /\ append_workers'[w].pc \in {"put", "while"}) =>
                /\ channels'[1] = (channels[1] + 1) % channels[0]
                /\ UNCHANGED <<img_queue, z_range>>
          /\ (append_workers'[w] # append_workers[w]
              /\ append_workers[w].pc \in {"z_read", "wrap", "ch_read"})
                => UNCHANGED <<img_queue, z_range, channels>>]_vars

\* C22: in simulated mode the frame that simulate_data generates for loop
\* index zz is enqueued with z position zz, whatever Start and Stop presses
\* came before.
C22_FrameTaggedWithLoopIndex ==
    [][\A w \in DOMAIN append_workers :
          place_data_step(w, "put", "z_read") =>
              img_queue'[Len(img_queue')].z = append_workers[w].zz]_vars

\* the frames worker w of append_img still enqueues before it tests
\* acq_running again: the rest of the for loop of simulate_data
frames_left(w) ==
    LET r == append_workers[w]
    IN  IF r.pc \in {"while", "done"} THEN 0
        ELSE IF r.pc = "put" THEN z_range[2] - r.zz
        ELSE z_range[2] - r.zz - 1

\* C23 as stated: after Stop the simulated producer enqueues fewer than
\* z_range[2] further frames before it tests acq_running, and the only
\* producer terminates with z_range[3] equal to 0.
C23_FewerThanAStack ==
    /\ [](\A w \in DOMAIN append_workers :
              (lastCall.fn = "stop_acq" /\ ~acq_running) => frames_left(w) < z_range[2])
    /\ [](\A w \in DOMAIN append_workers :
              (Len(append_workers) = 1 /\ append_workers[w].pc = "done") => z_range[3] = 0)

\* C23 amended: the simulated producer tests acq_running only between stacks.
\* Whatever the flag is, every step inside a stack keeps the number of frames
\* left, except a put, which lowers it by one; so after Stop the producer
\* enqueues at most z_range[2] further frames before it tests the flag, and it
\* terminates only at that test; the only producer does terminate (unless
\* the frame budget of the model holds it at its put), with z_range[3] equal
\* to 0.
C23_AtMostAStack ==
    /\ [](\A w \in DOMAIN append_workers : frames_left(w) <= z_range[2])
    /\ [][\A w \in DOMAIN append_workers :
             /\ place_data_step(w, "put", "z_read") =>
                    /\ frames_left(w)' = frames_left(w) - 1
                    /\ Len(img_queue') = Len(img_queue) + 1
             /\ (append_workers'[w] # append_workers[w]
                 /\ append_workers[w].pc \notin {"put", "while"}) =>
                    /\ frames_left(w)' = frames_left(w)
                    /\ img_queue' = img_queue
             /\ (append_workers[w].pc # "done" /\ append_workers'[w].pc = "done") =>
                    append_workers[w].pc = "while" /\ ~acq_running
             /\ place_data_step(w, "while", "put") =>
                    acq_running /\ frames_left(w)' = z_range[2]]_vars
    /\ [](\A w \in DOMAIN append_workers :
              (Len(append_workers) = 1 /\ append_workers[w].pc = "done") => z_range[3] = 0)
    /\ (lastCall.fn = "stop_acq" /\ Len(append_workers) = 1)
           ~> (Len(append_workers) > 1 \/ append_terminated(1) \/ held_at_put(1))

\* Stop was pressed while the only producer was in a stack of two frames; the
\* producer finished the stack and terminated
C23_Witness ==
    /\ lastCall.fn = "stop_acq"
    /\ Len(append_workers) = 1
    /\ append_workers[1].pc = "done"
    /\ append_workers[1].ii = 1
    /\ z_range[2] = 2
    /\ puts = 2
    /\ z_range[3] = 0

\* C24: the non-blocking img_queue.get of yield_img never finds the queue
\* empty: no yield_img worker is ended by queue.Empty.
C24_GetNeverEmpty ==
    \A w \in DOMAIN yield_workers : yield_workers[w].pc # "raised"

\* C25: display_napari calls img_queue.task_done exactly once for each frame
\* it displays and never otherwise (no step that displays no frame calls it),
\* so the number of task_done calls never exceeds the number of items put
\* into the queue.
C25_TaskDoneOncePerFrame ==
    /\ [][task_done' - task_done = Len(shown') - Len(shown)]_vars
    /\ [][\A w \in DOMAIN yield_workers :
             (yield_workers[w].pc \in {"yield", "yield_last"}
              /\ yield_workers'[w] # yield_workers[w]) =>
                 /\ task_done' = task_done + 1
                 /\ shown' = Append(shown, yield_workers[w].item)]_vars
    /\ [](task_done <= puts)

\* both frames that were put into the queue have been displayed, the second
\* by a yield_img worker of a second run
C25_Witness ==
    /\ task_done = 2
    /\ puts = 2
    /\ Len(shown) = 2
    /\ Len(yield_workers) = 2

\* C26: a slice of data that display_napari wrote from a frame of one colour
\* channel is never written again from a frame of another colour channel: any
\* two displayed frames with the same z position have the same channel.
C26_SliceKeepsItsChannel ==
    \A i, j \in DOMAIN shown :
        (i < j /\ shown[i].z = shown[j].z) => shown[i].c = shown[j].c

\* C27: a start_acq that finds acq_running False changes, of the data the
\* workers share, only acq_running and z_range[3]: channels (the active channel
\* index with it), the items in img_queue, the data stack and the other
\* entries of z_range are as before.
C27_StartFrame ==
    [][(StartCalled /\ ~acq_running) =>
          /\ channels' = channels
          /\ img_queue' = img_queue
          /\ data' = data
          /\ \A i \in 0..2 : z_range'[i] = z_range[i]]_vars

\* a second start_acq has just succeeded with the active channel at 1, a frame
\* waiting in the queue and a frame already written into the data stack
C27_Witness ==
    /\ lastCall = [fn |-> "start_acq", running |-> FALSE]
    /\ Len(append_workers) = 2
    /\ append_workers[2] = NewAppend
    /\ yield_workers[2] = NewYield
    /\ channels[1] = 1
    /\ img_queue # <<>>
    /\ shown # <<>>

\* the event list ev has one event per slice, with z_ext axis indices 0, 1, ...
\* in order and z_ext targets evenly spaced from z_range[0]
evenly_spaced_from_start(ev) ==
    /\ Len(ev) = z_range[2]
    /\ \A i \in DOMAIN ev : ev[i].axes.z_ext = i - 1
    /\ ev[1].z_ext = z_range[0] * linspace_div(z_range[2])
    /\ \A i \in 1..(Len(ev) - 2) :
           ev[i + 1].z_ext - ev[i].z_ext = ev[i + 2].z_ext - ev[i + 1].z_ext

\* C28 as stated: acquire_data submits, in one acquire call, exactly z_range[2]
\* events with z_ext axis indices 0..z_range[2]-1 in increasing order and z_ext
\* targets evenly spaced from z_range[0] (first event) to z_range[1] (last
\* event).
C28_FirstToLast ==
    /\ Len(acq_acquired) <= 1
    /\ acq_line \in {"exit", "done"} => Len(acq_acquired) = 1
    /\ \A k \in DOMAIN acq_acquired :
           /\ evenly_spaced_from_start(acq_acquired[k])
           /\ acq_acquired[k][z_range[2]].z_ext = z_range[1] * linspace_div(z_range[2])

\* C28 amended: as stated when z_range[2] is at least 2; when z_range[2] is 1
\* the single event has index 0 and target z_range[0].
C28_FirstToLastOfTwoOrMore ==
    /\ Len(acq_acquired) <= 1
    /\ acq_line \in {"exit", "done"} => Len(acq_acquired) = 1
    /\ \A k \in DOMAIN acq_acquired :
           /\ evenly_spaced_from_start(acq_acquired[k])
           /\ z_range[2] >= 2 =>
                  acq_acquired[k][z_range[2]].z_ext = z_range[1] * linspace_div(z_range[2])

\* acquire_data has returned after it submitted the three events for
\* z_range = [0, 2, 3, 0]: targets 0, 1 and 2 um (in units of 1/2 um)
C28_Witness ==
    /\ acq_line = "done"
    /\ z_range[0] = 0 /\ z_range[1] = 2 /\ z_range[2] = 3
    /\ acq_acquired = << << [axes |-> [z_ext |-> 0], z_ext |-> 0],
                            [axes |-> [z_ext |-> 1], z_ext |-> 2],
                            [axes |-> [z_ext |-> 2], z_ext |-> 4] >> >>

\* C29: every STATUS of a readiness poll is written while
\* 'OnlySendSerialCommandOnChange' is 'No', and the property is 'Yes' when
\* post_hardware_hook returns and when the Tiger setup cell has finished.
C29_PollsWhileRepeatsAreSent ==
    /\ [][(at("poll") /\ line = "command" /\ line' = "response") =>
             /\ props[<<"TigerCommHub", "OnlySendSerialCommandOnChange">>] = "No"
             /\ transmitted("STATUS")]_vars
    /\ [][(unit = "post_hardware_hook" /\ unit' # "post_hardware_hook"
           /\ unit' # "raised") =>
             props'[<<"TigerCommHub", "OnlySendSerialCommandOnChange">>] = "Yes"]_vars
    /\ []((unit = "tiger_setup" /\ ip = Len(TigerSetupCell) + 1) =>
             props[<<"TigerCommHub", "OnlySendSerialCommandOnChange">>] = "Yes")

\* post_hardware_hook has just returned to the engine after a poll that wrote
\* STATUS twice (the Tiger was busy at the first), and the property is 'Yes'
C29_Witness ==
    /\ unit = "run_acquisition"
    /\ engine.phase = "camera"
    /\ polls.status = 2
    /\ props[<<"TigerCommHub", "SerialCommand">>] = "STATUS"
    /\ props[<<"TigerCommHub", "OnlySendSerialCommandOnChange">>] = "Yes"

between(v, a, b) == (a <= v /\ v <= b) \/ (b <= v /\ v <= a)

\* C32: every event's tile (y) and height (z) stage target lies between the
\* start and end limits the user entered for its axis, inclusive, also when
\* the end is below the start and when the range has length zero.
C32_TargetsWithinLimits ==
    \A i \in DOMAIN events :
        /\ between(events[i].y, params.tile_axis_start_um, params.tile_axis_end_um)
        /\ between(events[i].z, params.height_axis_start_um, params.height_axis_end_um)

\* a step that is a call of grab_image
GrabImageCalled == acq_incoming # <<>> /\ acq_incoming' = <<>>

\* flat holds, row by row, a window of clip[0] x clip[1] pixels of image whose
\* margins differ by at most one pixel between top and bottom and between left
\* and right: the centre of the image
centre_of(flat, image) ==
    \E top \in 0..(Len(image) - clip[1]), left \in 0..(Len(image[1]) - clip[2]) :
        /\ abs(top - (Len(image) - clip[1] - top)) <= 1
        /\ abs(left - (Len(image[1]) - clip[2] - left)) <= 1
        /\ Len(flat) = clip[1] * clip[2]
        /\ \A r \in 1..clip[1], c \in 1..clip[2] :
               flat[(r - 1) * clip[2] + c] = image[top + r][left + c]

\* every call of grab_image enqueues exactly one item and returns the image
\* and the metadata it was given
one_frame_and_same_return ==
    /\ Len(img_queue') = Len(img_queue) + 1
    /\ SubSeq(img_queue', 1, Len(img_queue)) = img_queue
    /\ acq_returned' = acq_incoming

C34_StepDefinedForEveryCount ==
    /\ acq_line # "ZeroDivisionError"
    /\ acq_line \in {"multid_acquire", "multid_exit", "multid_done"} =>
           Len(acq_events) = z_range[2]
    /\ acq_line \in {"multid_exit", "multid_done"} => acq_acquired = <<acq_events>>

====
